---------------------------- MODULE Spec2Model ----------------------------
(***************************************************************************)
(* Sudoku solver of main_code_block.py: the SudokuBoard data model         *)
(* (board, original), its queries is_valid and find_empty, the two loaders *)
(* and the recursive backtracking search of SudokuSolver, unrolled into an *)
(* explicit call stack with one step per loop iteration.                   *)
(***************************************************************************)
EXTENDS Integers, Sequences, FiniteSets, TLC

(* ------------------------------ bounds -------------------------------- *)
MaxHoles == 2
MaxLoads == 1
MaxSolves == 2
MaxTime == 1

(* ------------------------- program constants --------------------------- *)
N == 9
BoxSize == 3

Idx == 0 .. (N - 1)
Digits == 1 .. N
None == <<>>

(* ------------------------------ grids ---------------------------------- *)
np_zeros == [i \in Idx |-> [j \in Idx |-> 0]]
np_false == [i \in Idx |-> [j \in Idx |-> FALSE]]

SudokuBoard_init == [board |-> np_zeros, original |-> np_false, original_cells |-> None]

(* A solved grid, as the user may type it in.                              *)
SolvedRows ==
  << <<2,3,1,6,7,8,9,4,5>>,
     <<6,7,5,4,9,2,3,1,8>>,
     <<4,9,8,3,1,5,2,6,7>>,
     <<8,2,9,7,6,4,1,5,3>>,
     <<1,5,6,8,2,3,7,9,4>>,
     <<7,4,3,9,5,1,8,2,6>>,
     <<9,6,4,2,3,7,5,8,1>>,
     <<5,8,7,1,4,9,6,3,2>>,
     <<3,1,2,5,8,6,4,7,9>> >>

FromRows(rows) == [i \in Idx |-> [j \in Idx |-> rows[i + 1][j + 1]]]

SetCell(g, r, c, v) == [g EXCEPT ![r][c] = v]

(* Cells blanked in the input grids, group after group: the four cells    *)
(* (6,3), (6,8), (7,3), (7,8) hold 2,1 / 1,2 and can be refilled as        *)
(* 1,2 / 2,1.                                                              *)
HoleCells == << { <<6,3>>, <<6,8>>, <<7,3>> }, { <<7,8>> }, { <<2,0>>, <<0,2>> } >>

RECURSIVE Blank(_, _)
Blank(g, n) ==
  IF n = 0 THEN g
  ELSE LET h == Blank(g, n - 1)
       IN [i \in Idx |-> [j \in Idx |-> IF <<i, j>> \in HoleCells[n] THEN 0 ELSE h[i][j]]]

Min(a, b) == IF a < b THEN a ELSE b

(* Overwrites that make an input grid inconsistent: none, or a second 1   *)
(* in column 0 and in the bottom-left box (and in row 7 while (7,3) is not *)
(* blanked).                                                               *)
Overwrites == { None, <<7, 0, 1>> }

Overwrite(g, w) == IF w = None THEN g ELSE SetCell(g, w[1], w[2], w[3])

(* The grids loaded: the solved grid with the first n groups blanked, and  *)
(* the inconsistent variants of the full grid and of the grid with one     *)
(* group blanked.                                                          *)
InputGrids ==
  UNION { { Overwrite(Blank(FromRows(SolvedRows), n), w) :
              w \in IF n <= 1 THEN Overwrites ELSE { None } } :
          n \in 0 .. Min(MaxHoles, Len(HoleCells)) }


(* --------------------------- SudokuBoard ------------------------------- *)

(* is_valid: the column loop, the row loop, then the 3x3 box loop; each    *)
(* returns False at the first cell equal to num.                           *)
is_valid_col(g, col, num) == \A i \in 0 .. (N - 1) : g[i][col] # num

is_valid_row(g, row, num) == \A j \in 0 .. (N - 1) : g[row][j] # num

start_of(k) == BoxSize * (k \div BoxSize)

(* the box loops one row and one column short                             *)
is_valid_box_short(g, row, col, num) ==
  \A i \in start_of(row) .. (start_of(row) + BoxSize - 2) :
    \A j \in start_of(col) .. (start_of(col) + BoxSize - 2) : g[i][j] # num

is_valid_box(g, row, col, num) ==
  \A i \in start_of(row) .. (start_of(row) + BoxSize - 1) :
    \A j \in start_of(col) .. (start_of(col) + BoxSize - 1) : g[i][j] # num

(* the box loop left out                                                   *)
is_valid_no_box(g, row, col, num) ==
  /\ is_valid_col(g, col, num)
  /\ is_valid_row(g, row, num)

is_valid(g, row, col, num) ==
  /\ is_valid_col(g, col, num)
  /\ is_valid_row(g, row, num)
  /\ is_valid_box(g, row, col, num)

(* board[i, j] with any integers: numpy counts a negative index from the   *)
(* end and raises IndexError outside -9..8.                                *)
in_bounds(k) == (0 - N) <= k /\ k < N

np_index(k) == IF k < 0 THEN k + N ELSE k

(* is_valid called with any integers, statement by statement: the column   *)
(* loop reads board[i, col], the row loop board[row, j], the box loop      *)
(* board[i, j] from start_row = 3 * (row // 3), start_col = 3 * (col // 3). *)
is_valid_call(g, row, col, num) ==
  IF ~ in_bounds(col) THEN "IndexError"
  ELSE IF ~ is_valid_col(g, np_index(col), num) THEN "False"
  ELSE IF ~ in_bounds(row) THEN "IndexError"
  ELSE IF ~ is_valid_row(g, np_index(row), num) THEN "False"
  ELSE IF \A i \in start_of(row) .. (start_of(row) + BoxSize - 1) :
            \A j \in start_of(col) .. (start_of(col) + BoxSize - 1) :
              g[np_index(i)][np_index(j)] # num
       THEN "True"
       ELSE "False"

(* find_empty: for i in range(9): for j in range(9): first cell equal to 0 *)
RECURSIVE find_empty_cols(_, _, _)
find_empty_cols(g, i, j) ==
  IF j = N THEN None
  ELSE IF g[i][j] = 0 THEN <<i, j>>
  ELSE find_empty_cols(g, i, j + 1)

RECURSIVE find_empty_rows(_, _)
find_empty_rows(g, i) ==
  IF i = N THEN None
  ELSE LET e == find_empty_cols(g, i, 0)
       IN IF e # None THEN e ELSE find_empty_rows(g, i + 1)

(* the scan taken column by column                                         *)
find_empty_colmajor(g) ==
  LET e == find_empty_rows([j \in Idx |-> [i \in Idx |-> g[i][j]]], 0)
  IN IF e = None THEN None ELSE <<e[2], e[1]>>

(* each row scanned from its last column                                  *)
find_empty_backwards(g) ==
  LET e == find_empty_rows([i \in Idx |-> [j \in Idx |-> g[i][N - 1 - j]]], 0)
  IN IF e = None THEN None ELSE <<e[1], N - 1 - e[2]>>

(* the scan stopping before the last row                                  *)
find_empty_short(g) == find_empty_rows([g EXCEPT ![N - 1] = [j \in Idx |-> 1]], 0)

find_empty(g) == find_empty_rows(g, 0)

(* ------------------------------ state ---------------------------------- *)
VARIABLES
  objs,          \* the SudokuBoard objects; objs[1] is the board of main()
  solver_board,  \* SudokuSolver.board: the object the solver was given, 0 before any solver exists
  solved_board,  \* SudokuSolver.solved_board: the working copy, 0 for None
  solving_time,  \* SudokuSolver.solving_time
  pc,            \* "idle", "running" (inside solve()), "returned" (solve() has just returned)
                 \* or "exited" (main() has left its loop)
  stack,         \* frames of _solve_backtracking, innermost last
  ret,           \* value returned by the last _solve_backtracking call that returned
  success,       \* value returned by the last solve()
  entry,         \* the object given to solve(), as it was when solve() was entered
  runs,          \* one record per completed solve(): input grid and marks, result, working grid at return
  nLoads,
  nSolves,
  console        \* the last message main() printed, "None" before any

vars == << objs, solver_board, solved_board, solving_time, pc, stack, ret,
           success, entry, runs, nLoads, nSolves, console >>

Top == stack[Len(stack)]
Work == objs[solved_board].board
Pop == SubSeq(stack, 1, Len(stack) - 1)
SetTop(f) == [stack EXCEPT ![Len(stack)] = f]

Frame(p, r, c, n) == [pc |-> p, row |-> r, col |-> c, num |-> n]

Init ==
  /\ objs = << SudokuBoard_init >>
  /\ solver_board = 0
  /\ solved_board = 0
  /\ solving_time = 0
  /\ pc = "idle"
  /\ stack = << >>
  /\ ret = "None"
  /\ success = "None"
  /\ entry = SudokuBoard_init
  /\ runs = << >>
  /\ nLoads = 0
  /\ nSolves = 0
  /\ console = "None"

(* ------------------------------ loaders -------------------------------- *)
Mark(orig, g) == [i \in Idx |-> [j \in Idx |-> IF g[i][j] # 0 THEN TRUE ELSE orig[i][j]]]

(* load_user_input: every row is stored and its nonzero cells marked.      *)
load_user_input(g) ==
  /\ pc # "running"
  /\ nLoads < MaxLoads
  /\ objs' = [objs EXCEPT ![1].board = g, ![1].original = Mark(@, g)]
  /\ nLoads' = nLoads + 1
  /\ pc' = "idle"
  /\ UNCHANGED << solver_board, solved_board, solving_time, stack, ret, success,
                  entry, runs, nSolves, console >>

(* load_from_image, when the grid was found: board and original_cells are  *)
(* rebuilt from the recognised digits; original is not touched.            *)
load_from_image(g) ==
  /\ pc # "running"
  /\ nLoads < MaxLoads
  /\ objs' = [objs EXCEPT ![1].board = g, ![1].original_cells = Mark(np_false, g)]
  /\ nLoads' = nLoads + 1
  /\ pc' = "idle"
  /\ UNCHANGED << solver_board, solved_board, solving_time, stack, ret, success,
                  entry, runs, nSolves, console >>

(* ------------------------------ solver --------------------------------- *)

(* SudokuSolver.__init__, on the board of main() or, as the unit tests do, *)
(* on the solved_board of the previous solver.                             *)
SudokuSolver_init(b) ==
  /\ pc # "running"
  /\ nSolves < MaxSolves
  /\ b \in 1 .. Len(objs)
  /\ b = 1 \/ b = solved_board
  /\ solver_board' = b
  /\ solved_board' = 0
  /\ solving_time' = 0
  /\ pc' = "idle"
  /\ UNCHANGED << objs, stack, ret, success, entry, runs, nLoads, nSolves, console >>

(* plain assignment in place of the copy: the solver works on the object  *)
(* it was given                                                            *)
no_copy(heap, ref) == [heap |-> heap, ref |-> ref]

(* copy.deepcopy(self.board): a new object holding equal arrays.           *)
deepcopy(heap, ref) == [heap |-> Append(heap, heap[ref]), ref |-> Len(heap) + 1]

(* solve(), up to the call of _solve_backtracking.                         *)
solve ==
  /\ pc # "running"
  /\ solver_board # 0
  /\ nSolves < MaxSolves
  /\ LET cp == deepcopy(objs, solver_board)
     IN /\ objs' = cp.heap
        /\ solved_board' = cp.ref
  /\ entry' = objs[solver_board]
  /\ stack' = << Frame("find", 0, 0, 0) >>
  /\ pc' = "running"
  /\ nSolves' = nSolves + 1
  /\ UNCHANGED << solver_board, solving_time, ret, success, runs, nLoads, console >>

(* a full grid reported as a failure                                       *)
solved_as_failure ==
  /\ pc = "running" /\ stack # << >> /\ Top.pc = "find"
  /\ find_empty(Work) = None
  /\ stack' = Pop
  /\ ret' = "False"
  /\ UNCHANGED << objs, solver_board, solved_board, solving_time, pc, success,
                  entry, runs, nLoads, nSolves, console >>

(* _solve_backtracking: find_empty() returned None.                        *)
solved ==
  /\ pc = "running" /\ stack # << >> /\ Top.pc = "find"
  /\ find_empty(Work) = None
  /\ stack' = Pop
  /\ ret' = "True"
  /\ UNCHANGED << objs, solver_board, solved_board, solving_time, pc, success,
                  entry, runs, nLoads, nSolves, console >>

(* _solve_backtracking: find_empty() returned a cell; the loop starts at 1. *)
(* the first digit tried taken from the time of the previous solve        *)
first_num_seeded == 1 + solving_time

first_num == 1

found_empty ==
  /\ pc = "running" /\ stack # << >> /\ Top.pc = "find"
  /\ find_empty(Work) # None
  /\ LET e == find_empty(Work)
     IN stack' = SetTop(Frame("loop", e[1], e[2], first_num))
  /\ UNCHANGED << objs, solver_board, solved_board, solving_time, pc, ret, success,
                  entry, runs, nLoads, nSolves, console >>

(* for num in range(1,10): the digit is valid, it is placed and the search *)
(* recurses.                                                               *)
(* the loop running one digit too far                                     *)
last_num_ten == N + 1

last_num == 9

(* the write indexed from the end of the grid                              *)
put_from_end(g, row, col, num) == SetCell(g, N - 1 - row, N - 1 - col, num)

(* self.solved_board.board[row, col] = num                                 *)
put(g, row, col, num) == SetCell(g, row, col, num)

place ==
  /\ pc = "running" /\ stack # << >> /\ Top.pc = "loop"
  /\ Top.num <= last_num
  /\ is_valid(Work, Top.row, Top.col, Top.num)
  /\ objs' = [objs EXCEPT ![solved_board].board = put(@, Top.row, Top.col, Top.num)]
  /\ stack' = Append(SetTop([Top EXCEPT !.pc = "called"]), Frame("find", 0, 0, 0))
  /\ UNCHANGED << solver_board, solved_board, solving_time, pc, ret, success,
                  entry, runs, nLoads, nSolves, console >>

(* ... the digit is not valid: next digit.                                 *)
skip ==
  /\ pc = "running" /\ stack # << >> /\ Top.pc = "loop"
  /\ Top.num <= last_num
  /\ ~ is_valid(Work, Top.row, Top.col, Top.num)
  /\ stack' = SetTop([Top EXCEPT !.num = @ + 1])
  /\ UNCHANGED << objs, solver_board, solved_board, solving_time, pc, ret, success,
                  entry, runs, nLoads, nSolves, console >>

(* the placement taken back before the result of the recursive call is    *)
(* looked at                                                               *)
propagate_undoing ==
  /\ pc = "running" /\ stack # << >> /\ Top.pc = "called"
  /\ ret = "True"
  /\ objs' = [objs EXCEPT ![solved_board].board = SetCell(@, Top.row, Top.col, 0)]
  /\ stack' = Pop
  /\ UNCHANGED << solver_board, solved_board, solving_time, pc, ret, success,
                  entry, runs, nLoads, nSolves, console >>

(* the recursive call returned True: return True.                          *)
propagate ==
  /\ pc = "running" /\ stack # << >> /\ Top.pc = "called"
  /\ ret = "True"
  /\ stack' = Pop
  /\ UNCHANGED << objs, solver_board, solved_board, solving_time, pc, ret, success,
                  entry, runs, nLoads, nSolves, console >>

(* the cell not set back                                                  *)
undo_skipped(g, row, col) == g

(* the cell set back to the first digit instead of 0                      *)
undo_to_first(g, row, col) == SetCell(g, row, col, first_num)

(* the recursive call returned False: the cell is set back to 0 and the    *)
(* loop goes on with the next digit.                                       *)
undo(g, row, col) == SetCell(g, row, col, 0)

(* the loop left at the first digit whose recursive call failed           *)
backtrack_giveup ==
  /\ pc = "running" /\ stack # << >> /\ Top.pc = "called"
  /\ ret = "False"
  /\ objs' = [objs EXCEPT ![solved_board].board = undo(@, Top.row, Top.col)]
  /\ stack' = SetTop([Top EXCEPT !.pc = "loop", !.num = last_num + 1])
  /\ UNCHANGED << solver_board, solved_board, solving_time, pc, ret, success,
                  entry, runs, nLoads, nSolves, console >>

(* the same digit tried again after its recursive call failed             *)
backtrack_retry ==
  /\ pc = "running" /\ stack # << >> /\ Top.pc = "called"
  /\ ret = "False"
  /\ objs' = [objs EXCEPT ![solved_board].board = undo(@, Top.row, Top.col)]
  /\ stack' = SetTop([Top EXCEPT !.pc = "loop"])
  /\ UNCHANGED << solver_board, solved_board, solving_time, pc, ret, success,
                  entry, runs, nLoads, nSolves, console >>

backtrack ==
  /\ pc = "running" /\ stack # << >> /\ Top.pc = "called"
  /\ ret = "False"
  /\ objs' = [objs EXCEPT ![solved_board].board = undo(@, Top.row, Top.col)]
  /\ stack' = SetTop([Top EXCEPT !.pc = "loop", !.num = @ + 1])
  /\ UNCHANGED << solver_board, solved_board, solving_time, pc, ret, success,
                  entry, runs, nLoads, nSolves, console >>

(* a search that ran out of digits reported as a success                  *)
exhausted_as_success ==
  /\ pc = "running" /\ stack # << >> /\ Top.pc = "loop"
  /\ Top.num > last_num
  /\ stack' = Pop
  /\ ret' = "True"
  /\ UNCHANGED << objs, solver_board, solved_board, solving_time, pc, success,
                  entry, runs, nLoads, nSolves, console >>

(* the loop ran out of digits: return False.                               *)
exhausted ==
  /\ pc = "running" /\ stack # << >> /\ Top.pc = "loop"
  /\ Top.num > last_num
  /\ stack' = Pop
  /\ ret' = "False"
  /\ UNCHANGED << objs, solver_board, solved_board, solving_time, pc, success,
                  entry, runs, nLoads, nSolves, console >>

(* solve(), after _solve_backtracking returned: the time is taken and the  *)
(* result handed to the caller.                                            *)
solve_return ==
  /\ pc = "running" /\ stack = << >>
  /\ \E t \in 0 .. MaxTime : solving_time' = t
  /\ success' = ret
  /\ runs' = Append(runs, [input |-> entry.board, original |-> entry.original,
                           success |-> ret, output |-> Work])
  /\ pc' = "returned"
  /\ UNCHANGED << objs, solver_board, solved_board, stack, ret, entry, nLoads, nSolves, console >>

solve_backtracking ==
  \/ solved
  \/ found_empty
  \/ place
  \/ skip
  \/ propagate
  \/ backtrack
  \/ exhausted

Next ==
  \/ \E g \in InputGrids : load_user_input(g)
  \/ \E g \in InputGrids : load_from_image(g)
  \/ \E b \in 1 .. (MaxSolves + 1) : SudokuSolver_init(b)
  \/ solve
  \/ solve_backtracking
  \/ solve_return

Spec == Init /\ [][Next]_vars

FairSpec == Spec /\ WF_vars(solve_backtracking \/ solve_return)

(* ------------------------------ main() --------------------------------- *)
(* The menu loop of main() on its one Board, objs[1]: pc = "idle" is the   *)
(* prompt "Enter your choice".                                             *)

(* np.sum(board.board): the sum of the 81 cells.                           *)
RECURSIVE sum_row(_, _, _)
sum_row(g, i, j) == IF j = N THEN 0 ELSE g[i][j] + sum_row(g, i, j + 1)

RECURSIVE sum_rows(_, _)
sum_rows(g, i) == IF i = N THEN 0 ELSE sum_row(g, i, 0) + sum_rows(g, i + 1)

np_sum(g) == sum_rows(g, 0)

BoardIsEmpty == "Board is empty. Please load a puzzle first."
SolvingPuzzle == "Solving puzzle..."
NoSolution == "No solution :("
LoadFailed == "Failed to load puzzle from image. Try again or use manual input."
Exiting == "Exiting the program."
InvalidChoice == "Error: Invalid choice. Please try again."

(* what the user may type in at choice 1: also nine rows of zeros          *)
TypedGrids == InputGrids \cup { np_zeros }

(* choice '1' *)
choice_1(g) == pc = "idle" /\ load_user_input(g)

(* choice '2', load_from_image returned True *)
choice_2(g) == pc = "idle" /\ load_from_image(g)

(* choice '2', load_from_image returned False before touching the board *)
choice_2_failed ==
  /\ pc = "idle"
  /\ console' = LoadFailed
  /\ UNCHANGED << objs, solver_board, solved_board, solving_time, pc, stack, ret,
                  success, entry, runs, nLoads, nSolves >>

(* choice '3' with no test of the board                                    *)
choice_3_unguarded ==
  /\ pc = "idle"
  /\ nSolves < MaxSolves
  /\ console' = SolvingPuzzle
  /\ solver_board' = 1
  /\ solving_time' = 0
  /\ LET cp == deepcopy(objs, 1)
     IN /\ objs' = cp.heap
        /\ solved_board' = cp.ref
  /\ entry' = objs[1]
  /\ stack' = << Frame("find", 0, 0, 0) >>
  /\ pc' = "running"
  /\ nSolves' = nSolves + 1
  /\ UNCHANGED << ret, success, runs, nLoads >>

(* choice '3': on a board whose cells sum to 0 the message and back to the *)
(* menu; otherwise solver = SudokuSolver(board) and solver.solve(), up to  *)
(* the call of _solve_backtracking.                                        *)
choice_3 ==
  /\ pc = "idle"
  /\ IF np_sum(objs[1].board) = 0
     THEN /\ console' = BoardIsEmpty
          /\ UNCHANGED << objs, solver_board, solved_board, solving_time, pc, stack,
                          ret, success, entry, runs, nLoads, nSolves >>
     ELSE /\ nSolves < MaxSolves
          /\ console' = SolvingPuzzle
          /\ solver_board' = 1
          /\ solving_time' = 0
          /\ LET cp == deepcopy(objs, 1)
             IN /\ objs' = cp.heap
                /\ solved_board' = cp.ref
          /\ entry' = objs[1]
          /\ stack' = << Frame("find", 0, 0, 0) >>
          /\ pc' = "running"
          /\ nSolves' = nSolves + 1
          /\ UNCHANGED << ret, success, runs, nLoads >>

(* choice '3', after solve() returned: the solution or "No solution".      *)
choice_3_result ==
  /\ pc = "returned"
  /\ console' = IF success = "True" THEN "Solution:" ELSE NoSolution
  /\ pc' = "idle"
  /\ UNCHANGED << objs, solver_board, solved_board, solving_time, stack, ret,
                  success, entry, runs, nLoads, nSolves >>

(* choice '4' *)
choice_4 ==
  /\ pc = "idle"
  /\ console' = Exiting
  /\ pc' = "exited"
  /\ UNCHANGED << objs, solver_board, solved_board, solving_time, stack, ret,
                  success, entry, runs, nLoads, nSolves >>

(* any other choice *)
invalid_choice ==
  /\ pc = "idle"
  /\ console' = InvalidChoice
  /\ UNCHANGED << objs, solver_board, solved_board, solving_time, pc, stack, ret,
                  success, entry, runs, nLoads, nSolves >>

main ==
  \/ \E g \in TypedGrids : choice_1(g)
  \/ \E g \in TypedGrids : choice_2(g)
  \/ choice_2_failed
  \/ choice_3
  \/ solve_backtracking
  \/ solve_return
  \/ choice_3_result
  \/ choice_4
  \/ invalid_choice

MainSpec == Init /\ [][main]_vars

(* ------------------------ vocabulary of the claims --------------------- *)
Cells == Idx \X Idx

At(g, p) == g[p[1]][p[2]]

SameRow(p, q) == p[1] = q[1]
SameCol(p, q) == p[2] = q[2]
SameBox(p, q) == (p[1] \div 3 = q[1] \div 3) /\ (p[2] \div 3 = q[2] \div 3)

RowOf(r) == { p \in Cells : p[1] = r }
ColOf(c) == { p \in Cells : p[2] = c }
BoxOf(p) == { q \in Cells : SameBox(p, q) }

Units == { RowOf(r) : r \in Idx } \cup { ColOf(c) : c \in Idx } \cup { BoxOf(p) : p \in Cells }

Values(g, unit) == { At(g, p) : p \in unit }

Peers(p) == { q \in Cells : q # p /\ (SameRow(p, q) \/ SameCol(p, q) \/ SameBox(p, q)) }

Empty(g) == { p \in Cells : At(g, p) = 0 }

(* every row, column and box holds a permutation of 1..9 *)
AllPermutations(g) == \A u \in Units : Values(g, u) = Digits

(* no nonzero digit twice in a row, column or box *)
(* (the digit v of cell (r, c) is held by no other cell of its row, of its *)
(* column, of its box)                                                     *)
Alone(g, r, c, v) ==
  /\ \A j \in Idx : j # c => g[r][j] # v
  /\ \A i \in Idx : i # r => g[i][c] # v
  /\ \A i \in (3 * (r \div 3)) .. (3 * (r \div 3) + 2) :
       \A j \in (3 * (c \div 3)) .. (3 * (c \div 3) + 2) :
         (i # r \/ j # c) => g[i][j] # v

Consistent(g) == \A r \in Idx : \A c \in Idx : g[r][c] # 0 => Alone(g, r, c, g[r][c])

(* h fills exactly the empty cells of g, and no digit it fills in repeats  *)
(* in its row, column or box                                               *)
IsCompletion(g, h) ==
  /\ \A p \in Cells : At(g, p) # 0 => At(h, p) = At(g, p)
  /\ \A p \in Empty(g) : At(h, p) \in Digits /\ \A q \in Peers(p) : At(h, q) # At(h, p)

(* the grids that fill the cells ps of g with digits that no peer holds    *)
RECURSIVE Fillings(_, _)
Fillings(g, ps) ==
  IF ps = {} THEN {g}
  ELSE LET p == CHOOSE x \in ps : TRUE
       IN UNION { Fillings(SetCell(g, p[1], p[2], d), ps \ {p}) :
                    d \in { d \in Digits : \A q \in Peers(p) : At(g, q) # d } }

Completions(g) == { h \in Fillings(g, Empty(g)) : IsCompletion(g, h) }

Before(p, q) == p[1] < q[1] \/ (p[1] = q[1] /\ p[2] < q[2])

Returned == pc = "returned"
InSolve == pc \in {"running", "returned"}

(* ------------------------------ claims --------------------------------- *)

(* C1: whenever solve() returns True, every row, column and 3x3 box of the *)
(* solved_board grid is a permutation of 1..9.                             *)
C1_SolvedIsPermutation ==
  (Returned /\ success = "True") => AllPermutations(Work)

(* C2: on every inconsistent starting grid (a nonzero digit twice in a     *)
(* row, column or box) solve() returns False, also when no cell is empty.  *)
C2_InconsistentFails ==
  (Returned /\ ~ Consistent(entry.board)) => success = "False"

(* C3: solve() never writes to the Board it was given: at every step of    *)
(* the search and after the return, that object (grid, original marks) is  *)
(* what it was when solve() was entered, and the working copy is another   *)
(* object.                                                                 *)
C3_InputNeverMutated ==
  InSolve => (objs[solver_board] = entry /\ solved_board # solver_board)

C3_Witness ==
  /\ Returned
  /\ Work # entry.board
  /\ \E p \in Cells : entry.original[p[1]][p[2]]

(* C4: at every step of the search and in the result, the working copy    *)
(* holds the input value at every cell that is nonzero in the input.       *)
C4_GivenCellsKept ==
  InSolve => \A p \in Cells : At(entry.board, p) # 0 => At(Work, p) = At(entry.board, p)

C4_Witness ==
  /\ Returned /\ success = "True"
  /\ Empty(entry.board) # {}
  /\ Empty(entry.board) # Cells
  /\ Empty(Work) = {}

(* C5: solve() returns False only when the starting grid has no            *)
(* completion (digits 1..9 for the empty cells, none of them repeated in   *)
(* its row, column or box); a consistent grid with a consistent completion *)
(* is solved.                                                              *)
C5_Complete ==
  Returned =>
    \/ success = "True"
    \/ /\ Completions(entry.board) = {}
       /\ ~ (Consistent(entry.board) /\ \E h \in Fillings(entry.board, Empty(entry.board)) :
                                           IsCompletion(entry.board, h) /\ Consistent(h))

C5_Witness ==
  /\ Returned /\ success = "False"
  /\ Cardinality(Empty(entry.board)) >= 3
  /\ Completions(entry.board) = {}

(* C6: on every starting grid the search terminates: a solve() that has   *)
(* been entered eventually returns.                                        *)
C6_Terminates == (pc = "running") ~> (pc = "returned")

C6_Witness ==
  /\ Returned
  /\ entry.board = np_zeros
  /\ Empty(Work) = {}

(* C7: two completed solve() calls that started from equal grids returned  *)
(* the same result and, on success, equal solved grids, whichever solver   *)
(* ran them and whatever solving_time and the original marks were.         *)
C7_Deterministic ==
  \A a \in 1 .. Len(runs) : \A b \in 1 .. Len(runs) :
    runs[a].input = runs[b].input =>
      /\ runs[a].success = runs[b].success
      /\ runs[a].success = "True" => runs[a].output = runs[b].output

C7_Witness ==
  /\ Len(runs) = 2
  /\ runs[1].input = runs[2].input
  /\ runs[1].success = "True"
  /\ runs[1].output # runs[1].input
  /\ solving_time # 0

(* C8: a grid with no empty cell is returned unchanged with success; so    *)
(* solving the solved_board of a successful solve() succeeds and returns   *)
(* that same grid.                                                         *)
C8_Idempotent ==
  /\ \A k \in 1 .. Len(runs) :
       Empty(runs[k].input) = {} => (runs[k].success = "True" /\ runs[k].output = runs[k].input)
  /\ \A k \in 2 .. Len(runs) :
       (runs[k - 1].success = "True" /\ runs[k].input = runs[k - 1].output) =>
          (runs[k].success = "True" /\ runs[k].output = runs[k - 1].output)

C8_Witness ==
  /\ Returned
  /\ Len(runs) = 2
  /\ solver_board = 2
  /\ runs[1].success = "True"
  /\ runs[1].output # runs[1].input
  /\ runs[2].input = runs[1].output

(* C9: find_empty() returns None exactly when the grid holds no 0;         *)
(* otherwise it returns a cell holding 0 such that every cell before it in *)
(* row-major order is nonzero; the step that calls it leaves every grid    *)
(* as it was.                                                              *)
FirstEmptyOK(g) ==
  LET e == find_empty(g)
  IN /\ (e = None) <=> (Empty(g) = {})
     /\ e # None => /\ e \in Cells
                    /\ At(g, e) = 0
                    /\ \A p \in Cells : Before(p, e) => At(g, p) # 0

C9_FindEmptyRowMajor ==
  /\ [](\A k \in 1 .. Len(objs) : FirstEmptyOK(objs[k].board))
  /\ [][(solved \/ found_empty) => objs' = objs]_vars

C9_Witness ==
  /\ pc = "running" /\ stack # << >> /\ Top.pc = "find"
  /\ find_empty(Work) = <<6, 8>>
  /\ At(Work, <<7, 3>>) = 0

(* C10: is_valid(row, col, num) is False exactly when num is held by a     *)
(* cell of the row, of the column or of the 3x3 box of (row, col), the     *)
(* cell (row, col) itself included; a call that answers False leaves every *)
(* grid as it was.                                                         *)
Appears(g, row, col, num) ==
  num \in (Values(g, RowOf(row)) \cup Values(g, ColOf(col)) \cup Values(g, BoxOf(<<row, col>>)))

C10_IsValidExact ==
  /\ [](/\ (pc = "idle" /\ solver_board = 0) =>
             \A row \in Idx : \A col \in Idx : \A num \in Digits :
               is_valid(objs[1].board, row, col, num) = ~ Appears(objs[1].board, row, col, num)
        /\ (pc = "running" /\ stack # << >> /\ Top.pc = "loop" /\ Top.num <= last_num) =>
             is_valid(Work, Top.row, Top.col, Top.num) = ~ Appears(Work, Top.row, Top.col, Top.num))
  /\ [][skip => objs' = objs]_vars

C10_Witness ==
  /\ pc = "idle" /\ solver_board = 0
  /\ At(objs[1].board, <<0, 2>>) = 1
  /\ \A q \in Peers(<<0, 2>>) : At(objs[1].board, q) # 1
  /\ ~ is_valid(objs[1].board, 0, 2, 1)
  /\ is_valid(objs[1].board, 6, 3, 2)
  /\ ~ is_valid(objs[1].board, 6, 3, 9)

(* a call of _solve_backtracking has just returned to its caller: to a     *)
(* frame waiting on its recursive call, or to solve()                      *)
JustReturned == pc = "running" /\ (stack = << >> \/ Top.pc = "called")

(* the cell a frame works on *)
CellOf(f) == << f.row, f.col >>

(* the frames waiting on a recursive call: their digits are placed *)
Pending == { k \in 1 .. Len(stack) : stack[k].pc = "called" }

(* C11: no call of _solve_backtracking returns True, and solve() never     *)
(* returns True, while a cell of the working copy is 0.                    *)
C11_NoPartialSuccess ==
  /\ (JustReturned /\ ret = "True") => Empty(Work) = {}
  /\ (Returned /\ success = "True") => Empty(Work) = {}

C11_Witness ==
  /\ Returned /\ success = "True"
  /\ Cardinality(Empty(entry.board)) = 4
  /\ Empty(Work) = {}
  /\ Len(runs) = 1

(* C12: until a call returns True, the working grid is the input grid plus *)
(* exactly the digits of the pending placements, so a call that returns    *)
(* False leaves the grid as it was when the call was entered (the pending  *)
(* placements are those of its callers); after a solve() that returns      *)
(* False the working copy equals the input grid.                           *)
C12_BacktrackRestores ==
  /\ (pc = "running" /\ ~ (JustReturned /\ ret = "True")) =>
        /\ \A k \in Pending : /\ At(entry.board, CellOf(stack[k])) = 0
                               /\ At(Work, CellOf(stack[k])) = stack[k].num
        /\ \A p \in Cells : \/ At(Work, p) = At(entry.board, p)
                             \/ \E k \in Pending : CellOf(stack[k]) = p
  /\ (Returned /\ success = "False") => Work = entry.board

C12_Witness ==
  /\ JustReturned /\ ret = "False"
  /\ Len(stack) >= 2
  /\ Cardinality(Empty(entry.board)) = 3
  /\ Cardinality(Empty(Work)) = 1

(* arguments is_valid is called with: indices from -10 to 9, digits from   *)
(* 0 to 10                                                                 *)
ArgIdx == (0 - (N + 1)) .. N
ArgNums == 0 .. (N + 1)

(* C13: is_valid called on a loaded Board with row or col outside 0..8 or  *)
(* num outside 1..9 does not answer: it returns neither True nor False.    *)
C13_RejectsOutOfRange ==
  (pc = "idle" /\ solver_board = 0 /\ nLoads > 0) =>
    \A row \in ArgIdx : \A col \in ArgIdx : \A num \in ArgNums :
      (row \notin Idx \/ col \notin Idx \/ num \notin Digits) =>
        is_valid_call(objs[1].board, row, col, num) \notin {"True", "False"}

(* C14: a solve() entered on the all-zero grid terminates and returns True *)
(* with a working copy that has no 0 cell.                                 *)
C14_EmptyGridSolved ==
  (pc = "running" /\ entry.board = np_zeros)
    ~> (Returned /\ entry.board = np_zeros /\ success = "True" /\ Empty(Work) = {})

C14_Witness ==
  /\ Returned /\ success = "True"
  /\ nLoads = 0
  /\ objs[solver_board].board = np_zeros
  /\ AllPermutations(Work)
  /\ \A j \in Idx : At(Work, <<0, j>>) = j + 1

(* C15: once the Board has been loaded, by either loader and however many  *)
(* times, `original` marks exactly the nonzero cells of the current grid.  *)
C15_OriginalMarksCurrent ==
  nLoads > 0 =>
    \A p \in Cells : objs[1].original[p[1]][p[2]] = (At(objs[1].board, p) # 0)

(* g comes before h when the cells are compared in row-major order *)
LexLess(g, h) ==
  \E p \in Cells : /\ At(g, p) < At(h, p)
                    /\ \A q \in Cells : Before(q, p) => At(g, q) = At(h, q)

(* C16: a successful solve() of a consistent grid returns, of all the      *)
(* consistent completions of that grid, the first one in row-major         *)
(* lexicographic order (the all-zero grid left aside: its completions are  *)
(* too many to list).                                                      *)
C16_FirstCompletion ==
  (Returned /\ success = "True" /\ Consistent(entry.board) /\ entry.board # np_zeros) =>
    /\ Work \in Completions(entry.board)
    /\ \A h \in Completions(entry.board) : h = Work \/ LexLess(Work, h)

C16_Witness ==
  /\ Returned /\ success = "True"
  /\ Consistent(entry.board)
  /\ Cardinality(Completions(entry.board)) >= 2
  /\ \E h \in Completions(entry.board) : LexLess(Work, h)

(* C17: from the moment the working grid has no empty cell, every step of  *)
(* the solve() leaves every grid as it is and returns True from the        *)
(* innermost pending call, until solve() itself returns True.              *)
C17_SuccessPropagates ==
  [][(pc = "running" /\ Empty(Work) = {}) =>
       /\ objs' = objs
       /\ ret' = "True"
       /\ IF stack = << >>
          THEN pc' = "returned" /\ success' = "True"
          ELSE pc' = "running" /\ stack' = Pop]_vars

C17_Witness ==
  /\ pc = "running" /\ Empty(Work) = {}
  /\ Len(stack) >= 3
  /\ Top.pc = "called" /\ ret = "True"
  /\ Cardinality(Empty(entry.board)) = Len(stack) + 1

(* C18: whenever the solver is about to call is_valid(row, col, num), the  *)
(* cell (row, col) of the working copy holds 0 and is the cell find_empty  *)
(* returns, for the first digit and for every later one.                   *)
C18_ValidCheckedOnEmptyCell ==
  (pc = "running" /\ stack # << >> /\ Top.pc = "loop" /\ Top.num <= last_num) =>
    /\ At(Work, CellOf(Top)) = 0
    /\ find_empty(Work) = CellOf(Top)

(* a digit is about to be tested in a cell where the digit before it was   *)
(* valid, so was placed and taken back                                     *)
C18_Witness ==
  /\ pc = "running" /\ stack # << >> /\ Top.pc = "loop"
  /\ Top.num > first_num /\ Top.num <= last_num
  /\ is_valid(Work, Top.row, Top.col, Top.num - 1)
  /\ At(Work, CellOf(Top)) = 0

Grid9x9(g) ==
  /\ DOMAIN g = Idx
  /\ \A i \in Idx : DOMAIN g[i] = Idx /\ \A j \in Idx : g[i][j] \in 0 .. 9

(* C19: the grid of every Board, the working copies included, is 9x9 with  *)
(* values in 0..9 in every state; a step of the search that writes changes *)
(* one cell of the working copy, from 0 to a digit 1..9 or from a digit    *)
(* to 0, and nothing else.                                                 *)
C19_GridShapeAndRange ==
  /\ [](\A k \in 1 .. Len(objs) : Grid9x9(objs[k].board))
  /\ [][(pc = "running" /\ objs' # objs) =>
          \E p \in Cells :
            /\ objs' = [objs EXCEPT ![solved_board].board = SetCell(@, p[1], p[2], At(Work', p))]
            /\ \/ At(Work, p) = 0 /\ At(Work', p) \in Digits
               \/ At(Work, p) \in Digits /\ At(Work', p) = 0]_vars

C19_Witness ==
  /\ pc = "running" /\ nLoads = 1
  /\ Len(stack) >= 2 /\ Top.pc = "loop" /\ Top.num = last_num
  /\ Work # entry.board
  /\ Grid9x9(Work) /\ Grid9x9(objs[1].board)

(* C20: in every state of a solve() and after it, every digit the solver   *)
(* has placed differs from every other cell of its row, column and box;    *)
(* and when the starting grid is consistent so does every digit of the     *)
(* working copy, also between a placement and its undo.                    *)
C20_SearchKeepsConsistency ==
  InSolve =>
    LET consistent == Consistent(entry.board)
    IN \A r \in Idx : \A c \in Idx :
         (Work[r][c] # 0 /\ (entry.board[r][c] = 0 \/ consistent)) =>
            Alone(Work, r, c, Work[r][c])

(* a recursive call has failed and the digits of two pending placements    *)
(* are still in the grid                                                   *)
C20_Witness ==
  /\ JustReturned /\ ret = "False"
  /\ Cardinality(Pending) >= 2
  /\ Consistent(entry.board)
  /\ Consistent(Work)
  /\ \A k \in Pending : At(Work, CellOf(stack[k])) \in Digits

(* C21: in the menu loop, choice 3 on an all-zero Board prints that the    *)
(* board is empty and goes back to the menu without creating a solver or   *)
(* a copy; on a Board with a nonzero cell it enters solve() on that Board. *)
(* So no solve() ever runs on the all-zero grid and no working copy is     *)
(* all zeros.                                                              *)
C21_MenuNeverSolvesEmpty ==
  /\ [](/\ InSolve => (solver_board = 1 /\ entry.board # np_zeros)
        /\ \A k \in 2 .. Len(objs) : objs[k].board # np_zeros
        /\ solved_board # 0 => objs[solved_board].board # np_zeros)
  /\ [][choice_3 =>
          IF objs[1].board = np_zeros
          THEN /\ console' = BoardIsEmpty
               /\ pc' = "idle"
               /\ objs' = objs /\ solver_board' = solver_board
               /\ solved_board' = solved_board /\ nSolves' = nSolves
          ELSE /\ pc' = "running"
               /\ solver_board' = 1
               /\ entry' = objs[1]
               /\ objs'[solved_board'] = objs[1]
               /\ nSolves' = nSolves + 1]_vars

(* the user typed in nine rows of zeros and chose 3 *)
C21_Witness ==
  /\ pc = "idle"
  /\ console = BoardIsEmpty
  /\ nLoads = 1
  /\ objs[1].board = np_zeros
  /\ solver_board = 0 /\ solved_board = 0 /\ Len(objs) = 1

=============================================================================
